---- MODULE Spec2Model ----
(***************************************************************************)
(* Model of the intel_npu plugin core:                                     *)
(*   - NetworkMetadata::findByName / bindRelatedDescriptors (icompiler.hpp)*)
(*   - driverCompilerAdapter::IR, the IR serialization adapter             *)
(*     (graph_transformations.hpp / graph_transformations.cpp)             *)
(*   - VPUXBackends, the selection of the inference backend                *)
(*     (vpux_backends.cpp)                                                 *)
(*                                                                         *)
(* Indices are 0-based as in the C++ code; a std::optional<size_t> is the  *)
(* empty sequence (nullopt) or a one-element sequence holding the value.   *)
(***************************************************************************)
EXTENDS Integers, Sequences, FiniteSets, TLC

(***************************************************************************)
(* Bounds of the metadata binder model.                                    *)
(***************************************************************************)
\* longest input list and longest output list
MaxLen == 2
\* number of relatedDescriptorIndex fields a caller sets before the first call
MaxPreset == 1
\* number of successive bindRelatedDescriptors() calls
MaxCalls == 2

\* compiler-facing names; two names give duplicates inside and across lists
Names == {"a", "b"}

VARIABLES
    inputs,     \* NetworkMetadata::inputs
    outputs,    \* NetworkMetadata::outputs
    calls,      \* how many times bindRelatedDescriptors() has returned
    presets,    \* how many related indices the caller has set by hand
    pre         \* <<inputs, outputs>> on entry to the latest call

bindVars == <<inputs, outputs, calls, presets, pre>>

VARIABLES
    win32,            \* the build defines _WIN32
    model,            \* the ov::Model objects: friendly name, graph size, operators, rt_info
    rtInfoMutex,      \* static std::mutex rtInfoMutex: its owner, or Nobody
    files,            \* working directory: path -> serializer that wrote the file, or Nobody
    pc,               \* where each serializer's thread is
    origModel,        \* constructor argument origModel
    supportedOpset,   \* constructor argument supportedOpset
    _model,           \* IR::_model
    _isLargeModel,    \* IR::_isLargeModel
    _streams,         \* IR::_xml and IR::_weights hold the serialized model
    _xmlFile,         \* IR::_xmlFile is open
    _weightsFile,     \* IR::_weightsFile is open
    _fileToDelete,    \* IR::_fileToDelete
    removeIndex,      \* position of the destructor's loop over _fileToDelete
    removeFailed,     \* a std::remove of this serializer's destructor failed
    rtInfoAtEntry     \* rt_info of origModel when IR::IR was entered

irVars == <<win32, model, rtInfoMutex, files, pc, origModel, supportedOpset, _model,
            _isLargeModel, _streams, _xmlFile, _weightsFile, _fileToDelete,
            removeIndex, removeFailed, rtInfoAtEntry>>

VARIABLES
    defines,             \* the preprocessor symbols the build defines
    backendRegistry,     \* constructor argument backendRegistry
    registryIndex,       \* how many registry entries the range-for has behind it
    registeredBackends,  \* the local vector registeredBackends
    _backend,            \* VPUXBackends::_backend
    _logger,             \* the messages VPUXBackends::_logger was given
    loadResult,          \* what loading gave for each registry entry tried
    vpc                  \* where the VPUXBackends constructor is

backendVars == <<defines, backendRegistry, registryIndex, registeredBackends, _backend,
                 _logger, loadResult, vpc>>

vars == <<bindVars, irVars, backendVars>>

(***************************************************************************)
(* std::optional<size_t>                                                   *)
(***************************************************************************)
nullopt == <<>>
optional(v) == <<v>>
has_value(o) == o # <<>>
value(o) == o[1]

(***************************************************************************)
(* IODescriptor.  The fields that neither findByName nor                   *)
(* bindRelatedDescriptors reads or writes (precision, shapes, friendly     *)
(* name, tensor names) are left out.                                       *)
(***************************************************************************)
IODescriptor(n, si, so, st) ==
    [nameFromCompiler |-> n, isStateInput |-> si, isStateOutput |-> so,
     isShapeTensor |-> st, relatedDescriptorIndex |-> nullopt]

\* descriptors an input list is drawn from (isStateOutput is never read on
\* an input) and descriptors an output list is drawn from (isStateInput is
\* never read on an output)
InputDescriptors ==
    {IODescriptor(n, si, FALSE, st) : n \in Names, si \in BOOLEAN, st \in BOOLEAN}
OutputDescriptors ==
    {IODescriptor(n, FALSE, so, st) : n \in Names, so \in BOOLEAN, st \in BOOLEAN}

ListsOf(S) == UNION {[1..n -> S] : n \in 0..MaxLen}

\* std::vector::size and std::vector::at with 0-based positions
size(v) == Len(v)
at(v, i) == v[i + 1]
InRange(v, i) == i >= 0 /\ i < size(v)

(***************************************************************************)
(* NetworkMetadata::findByName                                             *)
(***************************************************************************)
RECURSIVE findFrom(_, _, _)
findFrom(descriptors, targetName, descriptorIndex) ==
    IF ~(descriptorIndex < size(descriptors))
    THEN nullopt
    ELSE IF at(descriptors, descriptorIndex).nameFromCompiler = targetName
         THEN optional(descriptorIndex)
         ELSE findFrom(descriptors, targetName, descriptorIndex + 1)

\* "for (size_t descriptorIndex = 0; ..."
findByNameFromSecond(descriptors, targetName) == findFrom(descriptors, targetName, 1)
findByName(descriptors, targetName) == findFrom(descriptors, targetName, 0)

(***************************************************************************)
(* NetworkMetadata::bindRelatedDescriptors                                 *)
(***************************************************************************)
\* descriptors.at(index).relatedDescriptorIndex = v
setRelated(descriptors, index, v) ==
    [descriptors EXCEPT ![index + 1].relatedDescriptorIndex = optional(v)]

\* the counter after an already-bound descriptor is skipped: "++ioIndex; continue;"
skipBoundNoIncrement(ioIndex) == ioIndex
skipBound(ioIndex) == ioIndex + 1

\* the state-input branch: what the output it binds to is told
stateInputBackLink(outs, j, ioIndex) == setRelated(outs, j, ioIndex)

\* the shape-tensor guard "has_value() && *relatedDescriptorIndex != ioIndex"
shapeGuardNoSelfCheck(found, ioIndex) == has_value(found)
shapeGuard(found, ioIndex) == has_value(found) /\ value(found) # ioIndex

\* One iteration of the first loop: `pos` is the position of the range-for
\* reference `input`, `ioIndex` the counter the code keeps beside it.
\* Result: <<inputs, outputs, ioIndex>>.
inputIteration(ins, outs, pos, ioIndex) ==
    LET input == at(ins, pos) IN
    IF has_value(input.relatedDescriptorIndex)
    THEN <<ins, outs, skipBound(ioIndex)>>
    ELSE IF input.isStateInput
    THEN LET found == findByName(outs, input.nameFromCompiler) IN
         IF has_value(found)
         THEN <<setRelated(ins, pos, value(found)),
                stateInputBackLink(outs, value(found), ioIndex),
                ioIndex + 1>>
         ELSE <<ins, outs, ioIndex + 1>>
    ELSE IF input.isShapeTensor
    THEN LET found == findByName(ins, input.nameFromCompiler) IN
         IF shapeGuard(found, ioIndex)
         THEN <<setRelated(setRelated(ins, pos, value(found)), value(found), ioIndex),
                outs, ioIndex + 1>>
         ELSE <<ins, outs, ioIndex + 1>>
    ELSE <<ins, outs, ioIndex + 1>>

RECURSIVE inputLoop(_, _, _, _)
inputLoop(ins, outs, pos, ioIndex) ==
    IF ~(pos < size(ins))
    THEN <<ins, outs>>
    ELSE LET r == inputIteration(ins, outs, pos, ioIndex)
         IN inputLoop(r[1], r[2], pos + 1, r[3])

\* One iteration of the second loop.  Result: <<outputs, ioIndex>>.
outputIteration(outs, pos, ioIndex) ==
    LET output == at(outs, pos) IN
    IF has_value(output.relatedDescriptorIndex)
    THEN <<outs, skipBound(ioIndex)>>
    ELSE IF output.isShapeTensor
    THEN LET found == findByName(outs, output.nameFromCompiler) IN
         IF shapeGuard(found, ioIndex)
         THEN <<setRelated(setRelated(outs, pos, value(found)), value(found), ioIndex),
                ioIndex + 1>>
         ELSE <<outs, ioIndex + 1>>
    ELSE <<outs, ioIndex + 1>>

RECURSIVE outputLoop(_, _, _)
outputLoop(outs, pos, ioIndex) ==
    IF ~(pos < size(outs))
    THEN outs
    ELSE LET r == outputIteration(outs, pos, ioIndex)
         IN outputLoop(r[1], pos + 1, r[2])

\* the whole function: <<inputs, outputs>> on return
bindRelatedDescriptors(ins, outs) ==
    LET first == inputLoop(ins, outs, 0, 0)
    IN <<first[1], outputLoop(first[2], 0, 0)>>

\* The lists after each iteration of the two loops, in execution order:
\* element 1 is <<inputs, outputs>> on entry, element k + 1 the lists after
\* the k-th iteration (first the iterations over inputs, then over outputs).
RECURSIVE inputTrace(_, _, _, _)
inputTrace(ins, outs, pos, ioIndex) ==
    IF ~(pos < size(ins))
    THEN <<>>
    ELSE LET r == inputIteration(ins, outs, pos, ioIndex)
         IN <<<<r[1], r[2]>>>> \o inputTrace(r[1], r[2], pos + 1, r[3])

RECURSIVE outputTrace(_, _, _, _)
outputTrace(ins, outs, pos, ioIndex) ==
    IF ~(pos < size(outs))
    THEN <<>>
    ELSE LET r == outputIteration(outs, pos, ioIndex)
         IN <<<<ins, r[1]>>>> \o outputTrace(ins, r[1], pos + 1, r[2])

bindTrace(ins, outs) ==
    LET first == inputLoop(ins, outs, 0, 0)
    IN <<<<ins, outs>>>> \o inputTrace(ins, outs, 0, 0)
                        \o outputTrace(first[1], first[2], 0, 0)

(***************************************************************************)
(* The binder as a state machine: a NetworkMetadata value is produced by   *)
(* the compile/parse adapter, a caller may set related indices by hand,    *)
(* then bindRelatedDescriptors() is called, possibly more than once.       *)
(***************************************************************************)
BindInit ==
    /\ inputs \in ListsOf(InputDescriptors)
    /\ outputs \in ListsOf(OutputDescriptors)
    /\ calls = 0
    /\ presets = 0
    /\ pre = <<inputs, outputs>>

\* the caller assigns descriptors[index].relatedDescriptorIndex = v
PresetInput ==
    /\ calls = 0
    /\ presets < MaxPreset
    /\ \E index \in 0..(size(inputs) - 1), v \in 0..(MaxLen - 1) :
          /\ inputs' = setRelated(inputs, index, v)
          /\ pre' = <<inputs', outputs>>
    /\ presets' = presets + 1
    /\ UNCHANGED <<outputs, calls, irVars, backendVars>>

PresetOutput ==
    /\ calls = 0
    /\ presets < MaxPreset
    /\ \E index \in 0..(size(outputs) - 1), v \in 0..(MaxLen - 1) :
          /\ outputs' = setRelated(outputs, index, v)
          /\ pre' = <<inputs, outputs'>>
    /\ presets' = presets + 1
    /\ UNCHANGED <<inputs, calls, irVars, backendVars>>

Bind ==
    /\ calls < MaxCalls
    /\ LET r == bindRelatedDescriptors(inputs, outputs)
       IN /\ inputs' = r[1]
          /\ outputs' = r[2]
    /\ pre' = <<inputs, outputs>>
    /\ calls' = calls + 1
    /\ UNCHANGED <<presets, irVars, backendVars>>

BindNext == PresetInput \/ PresetOutput \/ Bind

\* shorthands for the claims
Positions(v) == 0..(size(v) - 1)
related(v, i) == at(v, i).relatedDescriptorIndex
preInputs == pre[1]
preOutputs == pre[2]
AllUnset(v) == \A i \in Positions(v) : ~has_value(related(v, i))
Returned == calls >= 1

(***************************************************************************)
(* driverCompilerAdapter::IR, the serialization adapter.                   *)
(*                                                                         *)
(* Each serializer instance is constructed and later destroyed by its own  *)
(* thread; the instances share the caller's ov::Model objects, the static  *)
(* rtInfoMutex and the working directory.                                  *)
(***************************************************************************)
\* serializer instances (one constructing thread each)
NumSerializers == 2
\* ov::Model objects owned by callers
NumModels == 2

Serializers == 1..NumSerializers
ModelIds == 1..NumModels
\* the object a serializer's _model->clone() allocates
CloneOf(t) == NumModels + t
ObjIds == 1..(NumModels + NumSerializers)

\* "supportedOpset < 11"
DowngradeBelowOpset == 11
Opsets == {DowngradeBelowOpset - 1, DowngradeBelowOpset}

\* "1024U * 1024 * 1024 * 2" bytes, counted here in KiB
LargeModelThreshold == 1024 * 1024 * 2
GraphSizes == {LargeModelThreshold, LargeModelThreshold + 1}

FriendlyNames == {"n1", "n2"}
new_api_key == "is_new_api"

\* modelName + "_serialized.xml", modelName + "_serialized.bin"
xmlNameOf(modelName) == <<modelName, "_serialized.xml">>
weightsNameOf(modelName) == <<modelName, "_serialized.bin">>
Paths == {xmlNameOf(n) : n \in FriendlyNames} \cup {weightsNameOf(n) : n \in FriendlyNames}

\* no thread / no file
Nobody == 0

\* an ov::Model; rt_info holds the value stored under "is_new_api", if any
Model(name, sz, ops, rt) ==
    [friendly_name |-> name, graph_size |-> sz, ops |-> ops, rt_info |-> rt]
\* a clone slot before clone() has allocated it
NoModel == Model("", 0, {}, nullopt)

\* ov::Model::get_rt_info / set_rt_info(true, key) / rtInfo.erase(key)
has_rt_info(m) == has_value(model[m].rt_info)
set_rt_info(m) == [model EXCEPT ![m].rt_info = optional(TRUE)]
erase_rt_info(mdl, m) == [mdl EXCEPT ![m].rt_info = nullopt]

\* ov::pass::ConvertInterpolate11ToInterpolate4
ConvertInterpolate11ToInterpolate4(ops) ==
    IF "Interpolate11" \in ops THEN (ops \ {"Interpolate11"}) \cup {"Interpolate4"} ELSE ops

\* IR::IR: "#ifdef _WIN32 ... get_graph_size() > 1024U * 1024 * 1024 * 2"
forceFileModeAtThreshold(sz) == win32 /\ sz >= LargeModelThreshold
forceFileMode(sz) == win32 /\ sz > LargeModelThreshold

\* serializeToIR: the object _model refers to after "_model = _model->clone()"
sharedModel(t) == origModel[t]
clonedModel(t) == CloneOf(t)

\* std::lock_guard<std::mutex> lock(rtInfoMutex): the static mutex can be taken
perInstanceMutexFree(t) == TRUE
mutexFree(t) == rtInfoMutex = Nobody

\* the owner of rtInfoMutex once the lock_guard's scope is left
stillLockedBy(t) == t
unlocked(t) == Nobody

\* IR::getXml / IR::getWeights: which member the accessor returns
getXml(t) == IF ~_isLargeModel[t] THEN "_xml" ELSE "_xmlFile"
getWeights(t) == IF ~_isLargeModel[t] THEN "_weights" ELSE "_weightsFile"

xmlName(t) == xmlNameOf(model[_model[t]].friendly_name)
weightsName(t) == weightsNameOf(model[_model[t]].friendly_name)
downgradeRegistered(t) == supportedOpset[t] < DowngradeBelowOpset

\* the models callers hand in: a caller's rt_info may already hold an entry
\* under "is_new_api"
CallerModels ==
    {Model(n, sz, {"Interpolate11"}, rt) :
        n \in FriendlyNames, sz \in GraphSizes, rt \in {nullopt, optional(FALSE)}}

\* no serializer has been constructed yet
SerializersIdle ==
    /\ rtInfoMutex = Nobody
    /\ files = [p \in Paths |-> Nobody]
    /\ pc = [t \in Serializers |-> "idle"]
    /\ origModel = [t \in Serializers |-> 1]
    /\ supportedOpset = [t \in Serializers |-> DowngradeBelowOpset]
    /\ _model = [t \in Serializers |-> 1]
    /\ _isLargeModel = [t \in Serializers |-> FALSE]
    /\ _streams = [t \in Serializers |-> FALSE]
    /\ _xmlFile = [t \in Serializers |-> FALSE]
    /\ _weightsFile = [t \in Serializers |-> FALSE]
    /\ _fileToDelete = [t \in Serializers |-> <<>>]
    /\ removeIndex = [t \in Serializers |-> 0]
    /\ removeFailed = [t \in Serializers |-> FALSE]
    /\ rtInfoAtEntry = [t \in Serializers |-> nullopt]

IRInit ==
    /\ win32 \in BOOLEAN
    /\ \E callers \in [ModelIds -> CallerModels] :
          /\ callers[1].friendly_name = "n1"
          /\ model = [o \in ObjIds |-> IF o \in ModelIds THEN callers[o] ELSE NoModel]
    /\ SerializersIdle

\* IR::IR up to the call of serializeToIR
Construct(t) ==
    /\ pc[t] = "idle"
    /\ \E m \in ModelIds, opset \in Opsets :
          /\ origModel' = [origModel EXCEPT ![t] = m]
          /\ supportedOpset' = [supportedOpset EXCEPT ![t] = opset]
          /\ _model' = [_model EXCEPT ![t] = m]
          /\ _isLargeModel' = [_isLargeModel EXCEPT ![t] = forceFileMode(model[m].graph_size)]
          /\ rtInfoAtEntry' = [rtInfoAtEntry EXCEPT ![t] = model[m].rt_info]
    /\ pc' = [pc EXCEPT ![t] = "serializeToIR"]
    /\ UNCHANGED <<bindVars, backendVars, win32, model, rtInfoMutex, files, _streams, _xmlFile, _weightsFile,
                   _fileToDelete, removeIndex, removeFailed>>

\* serializeToIR up to the lock: clone for a downgrade, register the passes
PrepareModel(t) ==
    /\ pc[t] = "serializeToIR"
    /\ IF downgradeRegistered(t)
       THEN /\ model' = [model EXCEPT ![clonedModel(t)] = model[_model[t]]]
            /\ _model' = [_model EXCEPT ![t] = clonedModel(t)]
       ELSE UNCHANGED <<model, _model>>
    /\ pc' = [pc EXCEPT ![t] = "lock"]
    /\ UNCHANGED <<bindVars, backendVars, rtInfoAtEntry, win32, rtInfoMutex, files, origModel, supportedOpset, _isLargeModel,
                   _streams, _xmlFile, _weightsFile, _fileToDelete, removeIndex, removeFailed>>

\* std::lock_guard<std::mutex> lock(rtInfoMutex)
Lock(t) ==
    /\ pc[t] = "lock"
    /\ mutexFree(t)
    /\ rtInfoMutex' = t
    /\ pc' = [pc EXCEPT ![t] = "set_rt_info"]
    /\ UNCHANGED <<bindVars, backendVars, rtInfoAtEntry, win32, model, files, origModel, supportedOpset, _model, _isLargeModel,
                   _streams, _xmlFile, _weightsFile, _fileToDelete, removeIndex, removeFailed>>

\* _model->set_rt_info(true, new_api_key)
SetRtInfo(t) ==
    /\ pc[t] = "set_rt_info"
    /\ model' = set_rt_info(_model[t])
    /\ pc' = [pc EXCEPT ![t] = "run_passes"]
    /\ UNCHANGED <<bindVars, backendVars, rtInfoAtEntry, win32, rtInfoMutex, files, origModel, supportedOpset, _model, _isLargeModel,
                   _streams, _xmlFile, _weightsFile, _fileToDelete, removeIndex, removeFailed>>

\* what manager.run_passes(_model) does when every pass runs to its end
passesModel(t) ==
    IF downgradeRegistered(t)
    THEN [model EXCEPT ![_model[t]].ops = ConvertInterpolate11ToInterpolate4(@)]
    ELSE model
passesFiles(t) ==
    IF _isLargeModel[t]
    THEN [files EXCEPT ![xmlName(t)] = t, ![weightsName(t)] = t]
    ELSE files
passesStreams(t) ==
    IF _isLargeModel[t] THEN _streams ELSE [_streams EXCEPT ![t] = TRUE]

\* manager.run_passes(_model) returns
RunPasses(t) ==
    /\ pc[t] = "run_passes"
    /\ model' = passesModel(t)
    /\ files' = passesFiles(t)
    /\ _streams' = passesStreams(t)
    /\ pc' = [pc EXCEPT ![t] = "erase_rt_info"]
    /\ UNCHANGED <<bindVars, backendVars, rtInfoAtEntry, win32, rtInfoMutex, origModel, supportedOpset, _model, _isLargeModel,
                   _xmlFile, _weightsFile, _fileToDelete, removeIndex, removeFailed>>

\* manager.run_passes(_model) throws, before or after the Serialize pass has
\* written; the exception leaves the lock_guard's scope and the constructor,
\* the members are destroyed, ~IR() does not run
RunPassesThrows(t) ==
    /\ pc[t] = "run_passes"
    /\ \E written \in BOOLEAN :
          IF written
          THEN model' = passesModel(t) /\ files' = passesFiles(t)
          ELSE UNCHANGED <<model, files>>
    /\ rtInfoMutex' = unlocked(t)
    /\ pc' = [pc EXCEPT ![t] = "thrown"]
    /\ UNCHANGED <<bindVars, backendVars, rtInfoAtEntry, win32, origModel, supportedOpset, _model, _isLargeModel, _streams,
                   _xmlFile, _weightsFile, _fileToDelete, removeIndex, removeFailed>>

\* rtInfo.erase(new_api_key) and the end of the lock_guard's scope
EraseRtInfo(t) ==
    /\ pc[t] = "erase_rt_info"
    /\ model' = erase_rt_info(model, _model[t])
    /\ rtInfoMutex' = unlocked(t)
    /\ pc' = [pc EXCEPT ![t] = IF _isLargeModel[t] THEN "open_files" ELSE "alive"]
    /\ UNCHANGED <<bindVars, backendVars, rtInfoAtEntry, win32, files, origModel, supportedOpset, _model, _isLargeModel, _streams,
                   _xmlFile, _weightsFile, _fileToDelete, removeIndex, removeFailed>>

\* std::ifstream::open: can succeed only on a file that exists
canOpen(p) == IF files[p] # Nobody THEN BOOLEAN ELSE {FALSE}

\* "if (!_xmlFile || !_weightsFile)"
openFailedOnlyIfBoth(xmlGood, weightsGood) == ~xmlGood /\ ~weightsGood
openFailed(xmlGood, weightsGood) == ~xmlGood \/ ~weightsGood

\* "if (_isLargeModel) { push_back; push_back; open; open; if (!..) throw }".
\* On OPENVINO_THROW the constructor is left, the members are destroyed and
\* ~IR() does not run; the members keep here the values they had at the throw.
OpenFiles(t) ==
    /\ pc[t] = "open_files"
    /\ _fileToDelete' = [_fileToDelete EXCEPT ![t] = <<xmlName(t), weightsName(t)>>]
    /\ \E xmlGood \in canOpen(xmlName(t)), weightsGood \in canOpen(weightsName(t)) :
          /\ _xmlFile' = [_xmlFile EXCEPT ![t] = xmlGood]
          /\ _weightsFile' = [_weightsFile EXCEPT ![t] = weightsGood]
          /\ pc' = [pc EXCEPT ![t] =
                      IF openFailed(xmlGood, weightsGood) THEN "thrown" ELSE "alive"]
    /\ UNCHANGED <<bindVars, backendVars, rtInfoAtEntry, win32, model, rtInfoMutex, files, origModel, supportedOpset, _model,
                   _isLargeModel, _streams, removeIndex, removeFailed>>

\* ~IR(): close both files
DtorClose(t) ==
    /\ pc[t] = "alive"
    /\ _xmlFile' = [_xmlFile EXCEPT ![t] = FALSE]
    /\ _weightsFile' = [_weightsFile EXCEPT ![t] = FALSE]
    /\ pc' = [pc EXCEPT ![t] = IF _fileToDelete[t] = <<>> THEN "destroyed" ELSE "remove"]
    /\ UNCHANGED <<bindVars, backendVars, rtInfoAtEntry, win32, model, rtInfoMutex, files, origModel, supportedOpset, _model,
                   _isLargeModel, _streams, _fileToDelete, removeIndex, removeFailed>>

\* ~IR(): one iteration of "for (auto& file : _fileToDelete) std::remove(file)";
\* the result of std::remove is not looked at
DtorRemove(t) ==
    /\ pc[t] = "remove"
    /\ LET file == at(_fileToDelete[t], removeIndex[t]) IN
       \E removed \in canOpen(file) :
          /\ files' = IF removed THEN [files EXCEPT ![file] = Nobody] ELSE files
          /\ removeFailed' = [removeFailed EXCEPT ![t] = @ \/ ~removed]
    /\ removeIndex' = [removeIndex EXCEPT ![t] = @ + 1]
    /\ pc' = [pc EXCEPT ![t] =
                IF removeIndex[t] + 1 < size(_fileToDelete[t]) THEN "remove" ELSE "destroyed"]
    /\ UNCHANGED <<bindVars, backendVars, rtInfoAtEntry, win32, model, rtInfoMutex, origModel, supportedOpset, _model,
                   _isLargeModel, _streams, _xmlFile, _weightsFile, _fileToDelete>>

Step(t) ==
    \/ Construct(t)
    \/ PrepareModel(t)
    \/ Lock(t)
    \/ SetRtInfo(t)
    \/ RunPasses(t)
    \/ RunPassesThrows(t)
    \/ EraseRtInfo(t)
    \/ OpenFiles(t)
    \/ DtorClose(t)
    \/ DtorRemove(t)

IRNext == \E t \in Serializers : Step(t)


(***************************************************************************)
(* VPUXBackends: the constructor walks the backend registry, loads each    *)
(* backend the build supports and keeps the first one that has devices.    *)
(***************************************************************************)
\* longest backend registry
MaxRegistry == 2

\* enum AvailableBackends, as far as the constructor distinguishes it
AvailableBackends == {"IMD", "LEVEL_ZERO"}

backendToString(backend) ==
    IF backend = "LEVEL_ZERO" THEN "npu_level_zero_backend"
    ELSE IF backend = "IMD" THEN "npu_imd_backend"
    ELSE "unsupported backend"

\* what IEngineBackend::getName() and IDevice::getName() may report
EngineNames == {"LEVEL0", "IMD"}
DeviceNames == {"dev0"}

\* an ov::SoPtr<IEngineBackend>: the object created for registry entry
\* `entry` (1-based here, 0 for the null pointer)
Backend(entry, name, deviceNames) ==
    [entry |-> entry, name |-> name, deviceNames |-> deviceNames]
nullptr == Backend(0, "", <<>>)
getName(backend) == backend.name
getDeviceNames(backend) == backend.deviceNames

\* the branches the preprocessor keeps
imdCompiledIn == ~defines.OPENVINO_STATIC_LIBRARY /\ defines.ENABLE_IMD_BACKEND
zeroCompiledIn == defines.ENABLE_ZEROAPI_BACKEND

\* a _logger call
Log(level, what, backendName) == [level |-> level, what |-> what, backend |-> backendName]

\* the lambda registerBackend: <<registeredBackends, messages logged>>
registerBackend(registered, backend, backendName) ==
    IF getDeviceNames(backend) # <<>>
    THEN <<Append(registered, backend), <<Log("debug", "Register", backendName)>>>>
    ELSE <<registered, <<>>>>

\* "catch (const std::exception& ex)" and "catch (...)"
caught(result, backendName) ==
    IF result = "exception"
    THEN <<Log("error", "Got an error during backend loading", backendName)>>
    ELSE <<Log("error", "Got an unknown error during backend loading", backendName)>>

\* "*registeredBackends.begin()"
back(v) == v[Len(v)]
begin(v) == v[1]

entryAt(k) == backendRegistry[k + 1]
InLoop == vpc = "for" /\ registryIndex < Len(backendRegistry)

BackendsInit ==
    /\ defines \in [ENABLE_IMD_BACKEND : BOOLEAN, ENABLE_ZEROAPI_BACKEND : BOOLEAN,
                    OPENVINO_STATIC_LIBRARY : BOOLEAN]
    /\ backendRegistry \in UNION {[1..n -> AvailableBackends] : n \in 0..MaxRegistry}
    /\ registryIndex = 0
    /\ registeredBackends = <<>>
    /\ _backend = nullptr
    /\ _logger = <<>>
    /\ loadResult = <<>>
    /\ vpc = "for"

\* the end of one loop iteration: the messages are logged after the "Try"
\* message, the outcome is kept, the range-for moves on
iterationDone(result, backend, registered, messages) ==
    /\ registeredBackends' = registered
    /\ _logger' = _logger \o <<Log("debug", "Try", backendToString(entryAt(registryIndex)))>>
                          \o messages
    /\ loadResult' = Append(loadResult, [result |-> result, backend |-> backend])
    /\ registryIndex' = registryIndex + 1
    /\ UNCHANGED <<bindVars, irVars, defines, backendRegistry, _backend, vpc>>

\* an IMD entry in a build with the IMD branch: the library is missing
\* ("continue"), or loadBackend / registerBackend throws, or the backend is
\* loaded and registered if it has devices
TryIMD ==
    /\ InLoop /\ entryAt(registryIndex) = "IMD" /\ imdCompiledIn
    /\ LET backendName == backendToString("IMD") IN
       \/ iterationDone("missing", nullptr, registeredBackends,
                        <<Log("debug", "doesn't exist", backendName)>>)
       \/ \E result \in {"exception", "unknown_exception"} :
             iterationDone(result, nullptr, registeredBackends, caught(result, backendName))
       \/ \E name \in EngineNames, deviceNames \in {<<>>} \cup {<<d>> : d \in DeviceNames} :
             LET backend == Backend(registryIndex + 1, name, deviceNames)
                 r == registerBackend(registeredBackends, backend, backendName)
             IN iterationDone("loaded", backend, r[1], r[2])

\* a LEVEL_ZERO entry in a build with the Level Zero branch: the constructor
\* of ZeroEngineBackend throws, or it returns a backend holding one device
TryLevelZero ==
    /\ InLoop /\ entryAt(registryIndex) = "LEVEL_ZERO" /\ zeroCompiledIn
    /\ LET backendName == backendToString("LEVEL_ZERO") IN
       \/ \E result \in {"exception", "unknown_exception"} :
             iterationDone(result, nullptr, registeredBackends, caught(result, backendName))
       \/ \E name \in EngineNames, d \in DeviceNames :
             LET backend == Backend(registryIndex + 1, name, <<d>>)
                 r == registerBackend(registeredBackends, backend, backendName)
             IN iterationDone("loaded", backend, r[1], r[2])

\* an entry whose branch the preprocessor removed: the try block is empty
TryNotCompiledIn ==
    /\ InLoop
    /\ \/ entryAt(registryIndex) = "IMD" /\ ~imdCompiledIn
       \/ entryAt(registryIndex) = "LEVEL_ZERO" /\ ~zeroCompiledIn
    /\ iterationDone("not_compiled_in", nullptr, registeredBackends, <<>>)

\* after the loop: "if (registeredBackends.empty()) emplace_back(nullptr);
\* _backend = *registeredBackends.begin();" and the closing message
SelectBackend ==
    /\ vpc = "for" /\ ~(registryIndex < Len(backendRegistry))
    /\ LET registered == IF registeredBackends = <<>> THEN <<nullptr>> ELSE registeredBackends
       IN /\ registeredBackends' = registered
          /\ _backend' = begin(registered)
          /\ _logger' = Append(_logger,
                               IF begin(registered) # nullptr
                               THEN Log("info", "Use backend for inference", getName(begin(registered)))
                               ELSE Log("error", "Cannot find backend for inference", ""))
    /\ vpc' = "constructed"
    /\ UNCHANGED <<bindVars, irVars, defines, backendRegistry, registryIndex, loadResult>>

BackendsNext == TryIMD \/ TryLevelZero \/ TryNotCompiledIn \/ SelectBackend

\* VPUXBackends::getBackendName and VPUXBackends::getAvailableDevicesNames
getBackendName == IF _backend # nullptr THEN getName(_backend) ELSE ""
getAvailableDevicesNames == IF _backend = nullptr THEN <<>> ELSE getDeviceNames(_backend)

(***************************************************************************)
(* Specifications.  Each one runs one component and keeps the others at    *)
(* rest.                                                                   *)
(***************************************************************************)
BindAtRest ==
    /\ inputs = <<>> /\ outputs = <<>> /\ calls = 0 /\ presets = 0
    /\ pre = <<inputs, outputs>>

IRAtRest ==
    /\ win32 = FALSE
    /\ model = [o \in ObjIds |->
                  IF o \in ModelIds
                  THEN Model("n1", LargeModelThreshold, {"Interpolate11"}, nullopt)
                  ELSE NoModel]
    /\ SerializersIdle

BackendsAtRest ==
    /\ defines = [ENABLE_IMD_BACKEND |-> FALSE, ENABLE_ZEROAPI_BACKEND |-> FALSE,
                  OPENVINO_STATIC_LIBRARY |-> FALSE]
    /\ backendRegistry = <<>> /\ registryIndex = 0 /\ registeredBackends = <<>>
    /\ _backend = nullptr /\ _logger = <<>> /\ loadResult = <<>> /\ vpc = "for"

\* the metadata binder
Init == IRAtRest /\ BackendsAtRest /\ BindInit
Spec == Init /\ [][BindNext]_vars

\* the serializers
InitIR == BindAtRest /\ BackendsAtRest /\ IRInit
SpecIR == InitIR /\ [][IRNext]_vars

\* the serializers under a scheduler that lets every thread that can take a
\* step take one eventually
FairSpecIR == SpecIR /\ \A t \in Serializers : WF_vars(Step(t))

\* the construction of a VPUXBackends
InitBackends == BindAtRest /\ IRAtRest /\ BackendsInit
SpecBackends == InitBackends /\ [][BackendsNext]_vars

(***************************************************************************)
(* Claims about the metadata binder (checked under Spec).                  *)
(***************************************************************************)

\* C1 (as stated): after bindRelatedDescriptors() on lists whose related
\* indices were all unset, every state-input at position i whose related
\* index is j has outputs[j].relatedDescriptorIndex == i.
C1_StateInputBackLinked ==
    (Returned /\ presets = 0) =>
        \A i \in Positions(inputs) :
            (at(inputs, i).isStateInput /\ has_value(related(inputs, i))) =>
                LET j == value(related(inputs, i))
                IN InRange(outputs, j) /\ related(outputs, j) = optional(i)

\* C2 (as stated): after bindRelatedDescriptors() on lists whose related
\* indices were all unset, no descriptor of either list has a related index
\* equal to its own position.
C2_NoIndexEqualsOwnPosition ==
    (Returned /\ presets = 0) =>
        /\ \A i \in Positions(inputs) : related(inputs, i) # optional(i)
        /\ \A i \in Positions(outputs) : related(outputs, i) # optional(i)

\* an output that the state-input branch can write: some state-input has its name
NamedByStateInput(o) ==
    \E i \in Positions(inputs) :
        at(inputs, i).isStateInput /\ at(inputs, i).nameFromCompiler = o.nameFromCompiler

\* C2 (amended): after bindRelatedDescriptors() on lists whose related indices
\* were all unset, a related index that points into the descriptor's own list
\* never equals the descriptor's position: this holds of every input that is
\* not a state-input and of every output whose name no state-input has.  (The
\* index of a state pairing points into the other list and may equal the
\* position.)
C2_NoSelfReferenceWithinList ==
    (Returned /\ presets = 0) =>
        /\ \A i \in Positions(inputs) :
              ~at(inputs, i).isStateInput => related(inputs, i) # optional(i)
        /\ \A i \in Positions(outputs) :
              ~NamedByStateInput(at(outputs, i)) => related(outputs, i) # optional(i)

\* C2 witness: a shape-tensor pairing inside the input list and one inside the
\* output list were bound
C2_Witness ==
    /\ Returned /\ presets = 0
    /\ \E i \in Positions(inputs) :
          ~at(inputs, i).isStateInput /\ at(inputs, i).isShapeTensor
          /\ has_value(related(inputs, i))
    /\ \E i \in Positions(outputs) :
          ~NamedByStateInput(at(outputs, i)) /\ at(outputs, i).isShapeTensor
          /\ has_value(related(outputs, i))

\* C3: bindRelatedDescriptors() is idempotent: the second of two successive
\* calls leaves every related index of inputs and outputs as the first call
\* left it, also with duplicate names and with indices set beforehand.
C3_Idempotent ==
    calls >= 2 => <<inputs, outputs>> = pre

\* C3 witness: a second call has returned on lists where the caller had set an
\* index by hand, the first call bound a descriptor and left another unbound
C3_Witness ==
    /\ calls = 2 /\ presets = 1
    /\ \E i \in Positions(inputs) : ~has_value(related(inputs, i))
    /\ \E i \in Positions(inputs) :
          at(inputs, i).isShapeTensor /\ ~at(inputs, i).isStateInput
          /\ has_value(related(inputs, i))
    /\ \E i \in Positions(outputs) : has_value(related(outputs, i))

\* C4 (as stated): a state-input whose related index is unset on entry and
\* whose name no output has still has an unset related index on return.
C4_UnmatchedStateInputStaysUnset ==
    Returned =>
        \A i \in Positions(inputs) :
            ( /\ at(preInputs, i).isStateInput
              /\ ~has_value(related(preInputs, i))
              /\ ~has_value(findByName(preOutputs, at(preInputs, i).nameFromCompiler)) )
            => ~has_value(related(inputs, i))

(***************************************************************************)
(* Claims about the serializer (checked under SpecIR, C8 under FairSpecIR).*)
(***************************************************************************)
Constructed(t) == pc[t] # "idle"
\* the constructor has returned
Completed(t) == pc[t] \in {"alive", "remove", "destroyed"}
InConstructor(t) == pc[t] \in {"serializeToIR", "lock", "set_rt_info", "run_passes",
                               "erase_rt_info", "open_files"}
Recorded(t) == {_fileToDelete[t][k] : k \in 1..Len(_fileToDelete[t])}
Exists(p) == files[p] # Nobody

\* C5: when the graph size does not exceed the 2 GiB threshold, or the build
\* is not one that forces file mode, isLargeModel() is false, getXml() and
\* getWeights() return the in-memory streams (which hold the result once the
\* constructor has returned), and this serializer neither writes a temporary
\* file nor records one for deletion, up to and including its destruction.
C5_SmallModelStaysInMemory ==
    \A t \in Serializers :
        ( /\ Constructed(t)
          /\ ~(win32 /\ model[origModel[t]].graph_size > LargeModelThreshold) )
        => /\ ~_isLargeModel[t]
           /\ getXml(t) = "_xml" /\ getWeights(t) = "_weights"
           /\ Completed(t) => _streams[t]
           /\ ~_xmlFile[t] /\ ~_weightsFile[t]
           /\ _fileToDelete[t] = <<>>
           /\ \A p \in Paths : files[p] # t

\* C5 witness: on a _WIN32 build a serializer of a model of exactly the
\* threshold size has been constructed, used in memory and destroyed
C5_Witness ==
    \E t \in Serializers :
        /\ win32 /\ pc[t] = "destroyed"
        /\ model[origModel[t]].graph_size = LargeModelThreshold
        /\ _streams[t] /\ \A p \in Paths : ~Exists(p)

\* C6 (as stated): in file mode both temporary files exist for as long as the
\* constructed serializer is alive; once its destructor has run, deletion of
\* every recorded path has been attempted, whether or not an earlier one
\* failed, and neither of its files is left unless a deletion failed.
C6_FilesLiveWithTheSerializer ==
    \A t \in Serializers :
        /\ (pc[t] = "alive" /\ _isLargeModel[t]) =>
              (Exists(xmlName(t)) /\ Exists(weightsName(t)))
        /\ (pc[t] = "destroyed" /\ _isLargeModel[t]) =>
              /\ removeIndex[t] = size(_fileToDelete[t])
              /\ ~removeFailed[t] => (files[xmlName(t)] # t /\ files[weightsName(t)] # t)

\* C7: a step of a serializer constructed with supportedOpset < 11 never
\* changes the caller's original model (operators and rt_info): the clone
\* takes the downgrade and the transient flag.
C7_OriginalModelUntouched ==
    [][\A t \in Serializers :
          (pc'[t] # pc[t] /\ supportedOpset'[t] < DowngradeBelowOpset)
          => model'[origModel'[t]] = model[origModel'[t]]]_vars

\* C7 witness: a serializer with supportedOpset < 11 is constructed; its clone
\* is downgraded and the original still has the opset-11 operator
C7_Witness ==
    \E t \in Serializers :
        /\ pc[t] = "alive" /\ supportedOpset[t] < DowngradeBelowOpset
        /\ _model[t] # origModel[t]
        /\ "Interpolate4" \in model[_model[t]].ops
        /\ model[origModel[t]].ops = {"Interpolate11"}

\* no other constructed serializer was given this serializer's model
Independent(t) ==
    \A u \in Serializers \ {t} : Constructed(u) => origModel[u] # origModel[t]

\* C8: under fair scheduling every construction that has started comes to its
\* end (it returns or it throws: no thread waits for the lock forever), and
\* once two constructions on different models, each shared with no other
\* serializer, have returned, neither model's rt_info holds the transient
\* flag (the value true under "is_new_api").
C8_NoDeadlockNoLeakedFlag ==
    /\ \A t \in Serializers :
          InConstructor(t) ~> (pc[t] \in {"alive", "thrown"})
    /\ [](\A t1, t2 \in Serializers :
             ( /\ t1 # t2
               /\ Completed(t1) /\ Completed(t2)
               /\ Independent(t1) /\ Independent(t2) )
             => /\ model[origModel[t1]].rt_info # optional(TRUE)
                /\ model[origModel[t2]].rt_info # optional(TRUE))

\* C8 witness: two serializers of different models, neither downgraded, have
\* both been constructed, so both went through the lock and set the flag
C8_Witness ==
    \E t1, t2 \in Serializers :
        /\ t1 # t2 /\ origModel[t1] # origModel[t2]
        /\ pc[t1] = "alive" /\ pc[t2] = "alive"
        /\ _model[t1] = origModel[t1] /\ _model[t2] = origModel[t2]

\* between set_rt_info and the erase
InFlagWindow(t) == pc[t] \in {"run_passes", "erase_rt_info"}

\* C9: at most one serializer is between setting the transient flag and
\* erasing it, and the flag is on its model all that time (so no other
\* serializer erases it during the pass run, also on a shared model).
C9_OneFlagWindowAtATime ==
    /\ Cardinality({t \in Serializers : InFlagWindow(t)}) <= 1
    /\ \A t \in Serializers :
          InFlagWindow(t) =>
              /\ rtInfoMutex = t
              /\ model[_model[t]].rt_info = optional(TRUE)

\* C9 witness: two serializers of the same model instance, no downgrade: one
\* has set the flag and run its passes while the other is held at the lock
C9_Witness ==
    \E t1, t2 \in Serializers :
        /\ t1 # t2
        /\ origModel[t1] = origModel[t2]
        /\ _model[t1] = origModel[t1]
        /\ supportedOpset[t2] = DowngradeBelowOpset
        /\ pc[t1] = "erase_rt_info" /\ pc[t2] = "lock"

\* C10 (as stated): no two serializers that are alive at the same time record
\* the same path, and the two files of a live file-mode serializer are the
\* ones it wrote (not overwritten, not deleted by another serializer).
C10_UniqueTemporaryFiles ==
    /\ \A t1, t2 \in Serializers :
          (t1 # t2 /\ pc[t1] = "alive" /\ pc[t2] = "alive")
          => Recorded(t1) \cap Recorded(t2) = {}
    /\ \A t \in Serializers :
          (pc[t] = "alive" /\ _isLargeModel[t])
          => (files[xmlName(t)] = t /\ files[weightsName(t)] = t)

\* the serializer instance no longer exists: destroyed, or never completed
Gone(t) == pc[t] \in {"destroyed", "thrown"}

\* C11 (as stated): once a file-mode serializer no longer exists, whether its
\* construction succeeded or was aborted (files not opened, or a pass raising
\* after the files were written), neither of the two files it wrote is left
\* (unless a std::remove of its destructor failed).
C11_NoFileLeftBehind ==
    \A t \in Serializers :
        (Gone(t) /\ _isLargeModel[t] /\ ~removeFailed[t])
        => (files[xmlName(t)] # t /\ files[weightsName(t)] # t)

\* C12: in file mode, when the structure file or the weights file (one or
\* both) does not open, the constructor throws and no serializer instance is
\* produced; when both open, the constructor returns.
C12_OpenFailureIsFatal ==
    [][\A t \in Serializers :
          (pc[t] = "open_files" /\ pc'[t] # pc[t])
          => /\ (~_xmlFile'[t] \/ ~_weightsFile'[t]) => pc'[t] = "thrown"
             /\ (_xmlFile'[t] /\ _weightsFile'[t]) => pc'[t] = "alive"]_vars

\* C12 witness: a construction was aborted with exactly one of the two files
\* open, and another one returned in file mode with both open
C12_Witness ==
    \E t, u \in Serializers :
        /\ pc[t] = "thrown" /\ _isLargeModel[t] /\ _fileToDelete[t] # <<>>
        /\ _xmlFile[t] /\ ~_weightsFile[t]
        /\ pc[u] = "alive" /\ _isLargeModel[u] /\ _xmlFile[u] /\ _weightsFile[u]

\* C19 (as stated): once the constructor has returned or thrown, the rt_info
\* of the caller's model equals its rt_info before the construction.
C19_RtInfoRestored ==
    \A t \in Serializers :
        (Completed(t) \/ pc[t] = "thrown")
        => model[origModel[t]].rt_info = rtInfoAtEntry[t]

\* C20 (as stated): the clone a serializer with supportedOpset < 11 takes never
\* carries the transient flag (the value true under "is_new_api") of another
\* serializer: the clone is not taken while the other one has the flag set.
C20_CloneNeverSeesTransientFlag ==
    \A t \in Serializers :
        (pc[t] = "lock" /\ downgradeRegistered(t))
        => model[CloneOf(t)].rt_info # optional(TRUE)

(***************************************************************************)
(* Further claims about the metadata binder (checked under Spec).          *)
(***************************************************************************)
\* the lists after each loop iteration of the latest call
lastTrace == bindTrace(preInputs, preOutputs)
\* the lists on return are the last element of the trace
TraceEndsAtReturn == Returned => lastTrace[Len(lastTrace)] = <<inputs, outputs>>

\* a shape tensor that is not a state tensor
ShapeOnly(d) == d.isShapeTensor /\ ~d.isStateInput /\ ~d.isStateOutput

\* C13 (as stated): after bindRelatedDescriptors() on lists whose related
\* indices were all unset, every shape-tensor (non-state) input i whose related
\* index is j has inputs[j].relatedDescriptorIndex == i, and every shape-tensor
\* output i whose related index is j has outputs[j].relatedDescriptorIndex == i,
\* whatever the names are.
C13_ShapePairingSymmetric ==
    (Returned /\ presets = 0) =>
        /\ \A i \in Positions(inputs) :
              (ShapeOnly(at(inputs, i)) /\ has_value(related(inputs, i))) =>
                  LET j == value(related(inputs, i))
                  IN InRange(inputs, j) /\ related(inputs, j) = optional(i)
        /\ \A i \in Positions(outputs) :
              (at(outputs, i).isShapeTensor /\ has_value(related(outputs, i))) =>
                  LET j == value(related(outputs, i))
                  IN InRange(outputs, j) /\ related(outputs, j) = optional(i)

\* C14 (as stated): a related index that has a value, on entry to
\* bindRelatedDescriptors() or after any loop iteration of the call, still has
\* exactly that value after the next iteration, hence on return.
C14_BoundDescriptorsKept ==
    Returned =>
        \A k \in 1..(Len(lastTrace) - 1) :
            /\ \A i \in Positions(lastTrace[k][1]) :
                  has_value(related(lastTrace[k][1], i))
                  => related(lastTrace[k + 1][1], i) = related(lastTrace[k][1], i)
            /\ \A i \in Positions(lastTrace[k][2]) :
                  has_value(related(lastTrace[k][2], i))
                  => related(lastTrace[k + 1][2], i) = related(lastTrace[k][2], i)

\* C15 (as stated): whenever the iteration over a state-input at position i
\* sets inputs[i].relatedDescriptorIndex = j, outputs[j] is a state-output and
\* has the name of inputs[i].
C15_StateInputPairedWithStateOutput ==
    Returned =>
        \A i \in Positions(preInputs) :
            LET before == lastTrace[i + 1]
                after == lastTrace[i + 2]
            IN ( /\ at(before[1], i).isStateInput
                 /\ ~has_value(related(before[1], i))
                 /\ has_value(related(after[1], i)) )
               => LET j == value(related(after[1], i))
                  IN /\ InRange(after[2], j)
                     /\ at(after[2], j).isStateOutput
                     /\ at(after[2], j).nameFromCompiler = at(before[1], i).nameFromCompiler

\* names to look up: the names in use and one that no descriptor has
LookupNames == Names \cup {"absent"}
Hits(descriptors, targetName) ==
    {p \in Positions(descriptors) : at(descriptors, p).nameFromCompiler = targetName}

\* C16: findByName(descriptors, targetName) is the smallest position whose
\* nameFromCompiler equals targetName, and nullopt exactly when no descriptor
\* has that name, for every list (the empty one and ones with duplicate names
\* included); it yields a position only, the list is not written.
C16_FindByNameFirstMatch ==
    \A descriptors \in {inputs, outputs, preInputs, preOutputs} :
        \A targetName \in LookupNames :
            LET found == findByName(descriptors, targetName)
            IN /\ has_value(found) <=> Hits(descriptors, targetName) # {}
               /\ has_value(found) =>
                     /\ value(found) \in Hits(descriptors, targetName)
                     /\ \A p \in Hits(descriptors, targetName) : value(found) <= p

\* C16 witness: the call has returned on an output list of two descriptors
\* with the same name, where a state-input of that name was bound to the first
\* of them, while another name is found in neither list
C16_Witness ==
    /\ Returned /\ presets = 0
    /\ size(outputs) = 2
    /\ at(outputs, 0).nameFromCompiler = at(outputs, 1).nameFromCompiler
    /\ \E i \in Positions(inputs) :
          /\ at(inputs, i).isStateInput
          /\ at(inputs, i).nameFromCompiler = at(outputs, 0).nameFromCompiler
          /\ related(inputs, i) = optional(0)
    /\ \E n \in Names : Hits(inputs, n) = {} /\ Hits(outputs, n) = {}

\* C18 (as stated): after bindRelatedDescriptors() on lists whose related
\* indices were all unset, every shape-tensor (non-state) input for which some
\* other input has the same name has a set related index, wherever the other
\* input is in the list; likewise every shape-tensor output for which some
\* other output has the same name.
C18_ShapeTensorsAllBound ==
    (Returned /\ presets = 0) =>
        /\ \A i \in Positions(inputs) :
              ( /\ ShapeOnly(at(inputs, i))
                /\ Hits(inputs, at(inputs, i).nameFromCompiler) # {i} )
              => has_value(related(inputs, i))
        /\ \A i \in Positions(outputs) :
              ( /\ at(outputs, i).isShapeTensor
                /\ Hits(outputs, at(outputs, i).nameFromCompiler) # {i} )
              => has_value(related(outputs, i))

(***************************************************************************)
(* Claim about VPUXBackends (checked under SpecBackends).                  *)
(***************************************************************************)
Raised(k) == loadResult[k].result \in {"exception", "unknown_exception"}
\* entries that loaded without error and report at least one device name
Usable == {k \in 1..Len(loadResult) :
              loadResult[k].result = "loaded"
              /\ getDeviceNames(loadResult[k].backend) # <<>>}
ErrorsLogged == {i \in 1..Len(_logger) :
                    _logger[i].what \in {"Got an error during backend loading",
                                         "Got an unknown error during backend loading"}}

\* C17: when the VPUXBackends constructor has returned, every registry entry
\* was tried, also after entries whose loading raised; each raising entry was
\* logged as an error and is not the selected backend; the selected backend
\* is the one of the first registry entry that loaded without error and
\* reports a device name; without such an entry _backend is null,
\* getBackendName() is "" and getAvailableDevicesNames() is empty.
C17_FirstUsableBackendSelected ==
    vpc = "constructed" =>
        /\ Len(loadResult) = Len(backendRegistry)
        /\ Cardinality(ErrorsLogged) = Cardinality({k \in 1..Len(loadResult) : Raised(k)})
        /\ \A k \in 1..Len(loadResult) : Raised(k) => _backend.entry # k
        /\ IF Usable = {}
           THEN _backend = nullptr /\ getBackendName = "" /\ getAvailableDevicesNames = <<>>
           ELSE \E k \in Usable :
                   /\ \A other \in Usable : k <= other
                   /\ _backend = loadResult[k].backend

\* C17 witness: the first registry entry raised, the second one loaded
\* with a device and is the selected backend
C17_Witness ==
    /\ vpc = "constructed"
    /\ Len(loadResult) = 2
    /\ Raised(1)
    /\ 2 \in Usable
    /\ _backend = loadResult[2].backend
    /\ getAvailableDevicesNames # <<>>

====
